---------------------------- MODULE Spec2Model ----------------------------
(***************************************************************************)
(* A model of the sphere ray tracer: the baseline tracer (src/src/main.cpp) *)
(* and the optimized tracer (src/raytracer.cpp).                           *)
(*                                                                         *)
(* Numbers.  A C++ double is modelled as a fixed-point integer: the double *)
(* x is the integer x * ONE, so 0.001 is 1 and 1.0 is 1000.  Products are  *)
(* rescaled by ONE, sqrt is the integer square root of the rescaled        *)
(* argument.  The rays of the intersection queries are chosen so that this *)
(* arithmetic is exact on them (axis-parallel and 3-4-5 directions,        *)
(* discriminants that are perfect squares), i.e. the results are those of  *)
(* real arithmetic.  The three non-finite doubles are integers outside the *)
(* finite range: NaN, PosInf, NegInf; comparisons with NaN are false.      *)
(***************************************************************************)
EXTENDS Integers, Sequences, FiniteSets, TLC

VARIABLES
    variant,    \* which copy of the tracer runs: "baseline" or "optimized"
    scene,      \* the Scene: [spheres, lights, background]
    gRay,       \* geometry harness: the Ray under test
    gOut,       \* geometry harness: the last query and what it returned
    tArgs,      \* trace: the arguments [ray, depth] of the outermost call
    tStack,     \* trace: the frames of the nested trace invocations
    tResult,    \* trace: what the outermost call returned, once it has
    tCalls,     \* trace: the number of trace invocations entered so far
    tSteps,     \* trace: the number of steps (entries and returns) so far
    camera,     \* render: the Camera [position, target, up, fov]
    width,      \* render: Renderer::width
    height,     \* render: Renderer::height
    nthreads,   \* render: the number of threads of the parallel region
    phase,      \* render: "idle", "parallel" (inside the loop) or "presented"
    nextRow,    \* render: the first loop iteration not yet handed to a thread
    workers,    \* render: per thread [pc, j, last, i]
    pixels,     \* render: the pixel buffer, one cell per index
    writes,     \* render: per cell, the stores made to it: [row, thread]
    progressOut,\* render: the percentages printed by the progress block
    texture,    \* render: the buffer handed to the texture at presentation
    eventQueue, \* main: the SDL events posted and not yet polled
    polled,     \* main: the events SDL_PollEvent has returned, in order
    accel       \* test bench: the RaySphereAccelerator and its device

geomVars == <<gRay, gOut>>
traceVars == <<tArgs, tStack, tResult, tCalls, tSteps>>
renderVars == <<camera, width, height, nthreads, phase, nextRow, workers,
                pixels, writes, progressOut, texture, eventQueue, polled>>
vars == <<variant, scene, geomVars, traceVars, renderVars, accel>>

-----------------------------------------------------------------------------
(* double *)

\* the fixed-point unit: the double 1.0
ONE == 1000

\* the self-intersection threshold 0.001 of Sphere::intersect
EPS == 1

\* std::numeric_limits<double>::max()
DBL_MAX == 2000000000

PosInf == DBL_MAX + 1
NegInf == 0 - (DBL_MAX + 1)
NaN == DBL_MAX + 2

\* x > y and x < y on doubles: false when either side is NaN
fgt(x, y) == x # NaN /\ y # NaN /\ x > y
flt(x, y) == x # NaN /\ y # NaN /\ x < y

\* x * y
fmul(x, y) == (x * y) \div ONE

\* x / y: IEEE division, 0/0 is NaN and x/0 is an infinity
fdiv(x, y) ==
    IF y = 0
    THEN IF x = 0 THEN NaN ELSE IF x > 0 THEN PosInf ELSE NegInf
    ELSE (x * ONE) \div y

\* the integer square root of n, one bit at a time: r is the root so far and
\* b the bit under test
RECURSIVE isqrtBits(_, _, _)
isqrtBits(n, r, b) ==
    IF b = 0 THEN r
    ELSE IF (r + b) * (r + b) <= n THEN isqrtBits(n, r + b, b \div 2)
    ELSE isqrtBits(n, r, b \div 2)

\* sqrt(x) for x >= 0
fsqrt(x) == isqrtBits(x * ONE, 0, 32768)

max(x, y) == IF x < y THEN y ELSE x
min(x, y) == IF y < x THEN y ELSE x

-----------------------------------------------------------------------------
(* Vec3 *)

Vec3(x, y, z) == [x |-> x, y |-> y, z |-> z]

\* a vector given in whole units
V(x, y, z) == Vec3(x * ONE, y * ONE, z * ONE)

add(a, b) == Vec3(a.x + b.x, a.y + b.y, a.z + b.z)
sub(a, b) == Vec3(a.x - b.x, a.y - b.y, a.z - b.z)
scale(a, t) == Vec3(fmul(a.x, t), fmul(a.y, t), fmul(a.z, t))
divide(a, t) == Vec3(fdiv(a.x, t), fdiv(a.y, t), fdiv(a.z, t))

dot(a, b) == (a.x * b.x + a.y * b.y + a.z * b.z) \div ONE

cross(a, b) ==
    Vec3(fmul(a.y, b.z) - fmul(a.z, b.y),
         fmul(a.z, b.x) - fmul(a.x, b.z),
         fmul(a.x, b.y) - fmul(a.y, b.x))

lengthSquared(a) == dot(a, a)
length(a) == fsqrt(lengthSquared(a))

normalize(a) ==
    LET len == length(a)
    IN  IF fgt(len, 0) THEN divide(a, len) ELSE Vec3(0, 0, 0)

reflect(a, normal) == sub(a, scale(scale(normal, 2 * ONE), dot(a, normal)))

-----------------------------------------------------------------------------
(* Ray *)

Ray(o, d) == [origin |-> o, direction |-> normalize(d)]

at(ray, t) == add(ray.origin, scale(ray.direction, t))

-----------------------------------------------------------------------------
(* Material, Sphere, Light *)

Material(c, amb, diff, spec, shin, refl) ==
    [color |-> c, ambient |-> amb, diffuse |-> diff, specular |-> spec,
     shininess |-> shin, reflectivity |-> refl]

Sphere(c, r, m) == [center |-> c, radius |-> r, material |-> m]

Light(p, c, i) == [position |-> p, color |-> c, intensity |-> i]

Miss == [hit |-> FALSE]
Hit(t) == [hit |-> TRUE, t |-> t]

\* a root selection that tries the larger root first
selectRootLargerFirst(t1, t2) ==
    IF fgt(t2, EPS) THEN Hit(t2)
    ELSE IF fgt(t1, EPS) THEN Hit(t1)
    ELSE Miss

\* a root selection that tests the roots against 0 instead of epsilon
selectRootNoEpsilon(t1, t2) ==
    IF fgt(t1, 0) THEN Hit(t1)
    ELSE IF fgt(t2, 0) THEN Hit(t2)
    ELSE Miss

\* The root selection of Sphere::intersect: the smaller root t1 if it passes
\* the epsilon test, else the larger root t2 if that passes, else no hit.
selectRoot(t1, t2) ==
    IF fgt(t1, EPS) THEN Hit(t1)
    ELSE IF fgt(t2, EPS) THEN Hit(t2)
    ELSE Miss

\* Sphere::intersect of the optimized tracer: the half-b form, a = 1 assumed.
\* The result is [hit, t]; t is left unassigned (no field) on a miss.
Sphere_intersect(ray, s) ==
    LET oc == sub(ray.origin, s.center)
        b_half == dot(oc, ray.direction)
        c == lengthSquared(oc) - fmul(s.radius, s.radius)
        discriminant == fmul(b_half, b_half) - c
    IN  IF discriminant < 0 THEN Miss
        ELSE LET sqrt_disc == fsqrt(discriminant)
                 t1 == (0 - b_half) - sqrt_disc
                 t2 == (0 - b_half) + sqrt_disc
             IN  selectRoot(t1, t2)

\* Sphere::intersect of the baseline tracer: the general quadratic.
Sphere_intersect_baseline(ray, s) ==
    LET oc == sub(ray.origin, s.center)
        a == dot(ray.direction, ray.direction)
        b == fmul(2 * ONE, dot(oc, ray.direction))
        c == dot(oc, oc) - fmul(s.radius, s.radius)
        discriminant == fmul(b, b) - fmul(fmul(4 * ONE, a), c)
    IN  IF discriminant < 0 THEN Miss
        ELSE LET t1 == fdiv((0 - b) - fsqrt(discriminant), fmul(2 * ONE, a))
                 t2 == fdiv((0 - b) + fsqrt(discriminant), fmul(2 * ONE, a))
             IN  selectRoot(t1, t2)

\* the Sphere::intersect that copy v of the tracer compiles
SphereIntersectOf(v, ray, s) ==
    IF v = "optimized" THEN Sphere_intersect(ray, s)
    ELSE Sphere_intersect_baseline(ray, s)

getNormal(s, point) == normalize(sub(point, s.center))

-----------------------------------------------------------------------------
(* Scene *)

\* spheres[i] of the C++ vector is spheres[i + 1] of the sequence
sphereAt(sc, i) == sc.spheres[i + 1]

\* the test written "t <= closest_t": a later sphere wins an exact tie
closerOrEqual(t, closest_t) == t # NaN /\ closest_t # NaN /\ t <= closest_t

\* the test "t < closest_t" of Scene::intersect
closer(t, closest_t) == flt(t, closest_t)

\* The loop of Scene::intersect from index i on, with the running closest_t
\* and hit_idx.
RECURSIVE intersectLoop(_, _, _, _, _, _)
intersectLoop(v, sc, ray, i, closest_t, hit_idx) ==
    IF i >= Len(sc.spheres) THEN [closest_t |-> closest_t, hit_idx |-> hit_idx]
    ELSE LET r == SphereIntersectOf(v, ray, sphereAt(sc, i))
         IN  IF r.hit /\ closer(r.t, closest_t)
             THEN intersectLoop(v, sc, ray, i + 1, r.t, i)
             ELSE intersectLoop(v, sc, ray, i + 1, closest_t, hit_idx)

\* a return value that takes index 0 for "no sphere"
foundNonZero(hit_idx) == hit_idx # 0

\* "return hit_idx != -1"
found(hit_idx) == hit_idx # -1

\* Scene::intersect: [hit, closest_t, hit_idx]
Scene_intersect(v, sc, ray) ==
    LET r == intersectLoop(v, sc, ray, 0, DBL_MAX, -1)
    IN  [hit |-> found(r.hit_idx), closest_t |-> r.closest_t,
         hit_idx |-> r.hit_idx]

\* the test without its upper bound: "t > 0.001"
occludesUnbounded(t, max_distance) == fgt(t, EPS)

\* the test "t > 0.001 && t < max_distance" of Scene::intersectShadow
occludes(t, max_distance) == fgt(t, EPS) /\ flt(t, max_distance)

\* Scene::intersectShadow from index i on: returns at the first occluder.
RECURSIVE shadowLoop(_, _, _, _)
shadowLoop(sc, ray, max_distance, i) ==
    IF i >= Len(sc.spheres) THEN FALSE
    ELSE LET r == Sphere_intersect(ray, sphereAt(sc, i))
         IN  IF r.hit /\ occludes(r.t, max_distance) THEN TRUE
             ELSE shadowLoop(sc, ray, max_distance, i + 1)

intersectShadow(sc, ray, max_distance) == shadowLoop(sc, ray, max_distance, 0)

\* the recursion bound: the literal 3 of "depth > 3" and "depth < 3"
MAX_DEPTH == 3

\* pow(x, n) for an integral exponent n >= 0
RECURSIVE fpow(_, _)
fpow(x, n) ==
    IF n = 0 THEN ONE
    ELSE IF n % 2 = 0 THEN LET h == fpow(x, n \div 2) IN fmul(h, h)
    ELSE fmul(x, fpow(x, n - 1))

\* The shadow test of trace for one light at hit_point.  The baseline runs the
\* closest-hit query on the shadow ray; the optimized tracer runs
\* intersectShadow bounded by the distance to the light.
inShadow(v, sc, hit_point, light) ==
    LET light_dir == normalize(sub(light.position, hit_point))
        light_distance == length(sub(light.position, hit_point))
    IN  IF v = "optimized"
        THEN intersectShadow(sc, Ray(hit_point, light_dir), light_distance)
        ELSE Scene_intersect(v, sc, Ray(hit_point, light_dir)).hit

\* the diffuse and specular terms one unshadowed light adds
lightTerms(m, normal, view_dir, hit_point, light) ==
    LET light_dir == normalize(sub(light.position, hit_point))
        diff == max(0, dot(normal, light_dir))
        diffuse == scale(scale(scale(m.color, m.diffuse), diff), light.intensity)
        reflect_dir == reflect(scale(light_dir, 0 - ONE), normal)
        spec == fpow(max(0, dot(view_dir, reflect_dir)), m.shininess)
        specular == scale(scale(scale(light.color, m.specular), spec),
                          light.intensity)
    IN  add(diffuse, specular)

\* the loop over the lights from light i on, with the colour so far
RECURSIVE lightLoop(_, _, _, _, _, _, _, _)
lightLoop(v, sc, m, normal, view_dir, hit_point, i, color) ==
    IF i > Len(sc.lights) THEN color
    ELSE lightLoop(v, sc, m, normal, view_dir, hit_point, i + 1,
                   IF inShadow(v, sc, hit_point, sc.lights[i]) THEN color
                   ELSE add(color, lightTerms(m, normal, view_dir, hit_point,
                                              sc.lights[i])))

\* trace from the hit to the reflection site: the ambient term and the lights
localColor(v, sc, ray, h) ==
    LET sphere == sphereAt(sc, h.hit_idx)
        hit_point == at(ray, h.closest_t)
        normal == getNormal(sphere, hit_point)
        view_dir == normalize(sub(ray.origin, hit_point))
    IN  lightLoop(v, sc, sphere.material, normal, view_dir, hit_point, 1,
                  scale(sphere.material.color, sphere.material.ambient))

\* the reflected ray of trace
reflectRay(sc, ray, h) ==
    LET sphere == sphereAt(sc, h.hit_idx)
        hit_point == at(ray, h.closest_t)
        normal == getNormal(sphere, hit_point)
        view_dir == normalize(sub(ray.origin, hit_point))
    IN  Ray(hit_point, reflect(scale(view_dir, 0 - ONE), normal))

\* a reflection site cut off only by the guard at the entry of trace
reflectsToBound(m, depth) == m.reflectivity > 0 /\ depth <= MAX_DEPTH

\* the reflection site without its depth test
reflectsAlways(m, depth) == m.reflectivity > 0

\* the condition of the reflection site
reflects(m, depth) == m.reflectivity > 0 /\ depth < MAX_DEPTH

\* the additive combination in both copies of the tracer
combineAdditive(v, color, reflect_color, refl) ==
    add(color, scale(reflect_color, refl))

\* the combination of the local and the reflected colour: additive in the
\* baseline, a convex blend in the optimized tracer
combine(v, color, reflect_color, refl) ==
    IF v = "optimized"
    THEN add(scale(color, ONE - refl), scale(reflect_color, refl))
    ELSE add(color, scale(reflect_color, refl))

\* a miss that returns black instead of the background
missColorBlack(sc) == Vec3(0, 0, 0)

\* what trace returns when the ray hits nothing
missColor(sc) == sc.background

\* a recursive call that counts two levels per bounce
nextDepthByTwo(depth) == depth + 2

\* the depth argument "depth + 1" of the recursive call
nextDepth(depth) == depth + 1

\* a guard that lets one more level through
beyondBoundLate(depth) == depth > MAX_DEPTH + 1

\* the guard "depth > 3" at the entry of trace
beyondBound(depth) == depth > MAX_DEPTH

\* what trace returns beyond the depth bound
depthColor(sc) == sc.background

\* Scene::trace as a function of its arguments
RECURSIVE trace(_, _, _, _)
trace(v, sc, ray, depth) ==
    IF beyondBound(depth) THEN depthColor(sc)
    ELSE LET h == Scene_intersect(v, sc, ray)
         IN  IF ~h.hit THEN missColor(sc)
             ELSE LET m == sphereAt(sc, h.hit_idx).material
                      color == localColor(v, sc, ray, h)
                  IN  IF reflects(m, depth)
                      THEN combine(v, color,
                                   trace(v, sc, reflectRay(sc, ray, h),
                                         nextDepth(depth)),
                                   m.reflectivity)
                      ELSE color

\* the number of reflection bounces trace follows: its recursive calls
RECURSIVE bounces(_, _, _, _)
bounces(v, sc, ray, depth) ==
    IF beyondBound(depth) THEN 0
    ELSE LET h == Scene_intersect(v, sc, ray)
         IN  IF ~h.hit THEN 0
             ELSE IF reflects(sphereAt(sc, h.hit_idx).material, depth)
                  THEN 1 + bounces(v, sc, reflectRay(sc, ray, h),
                                   nextDepth(depth))
                  ELSE 0

-----------------------------------------------------------------------------
(* The scenes and the rays *)

Color(r, g, b) == Vec3(r, g, b)

\* Scene(): the background of the constructor
Background == Color(100, 100, 150)

Variants == {"baseline", "optimized"}

\* a perfect mirror: reflectivity 1, diffuse 0
mirror == Material(Color(1000, 1000, 1000), 0, 0, 0, 1, 1000)
\* Material(): the defaults of the constructor
plain == Material(Color(1000, 1000, 1000), 100, 700, 600, 32, 300)
\* the material "red" of main, made non-reflective
matte == Material(Color(1000, 200, 200), 100, 700, 800, 64, 0)
\* the material "blue" of main
glossy == Material(Color(200, 200, 1000), 100, 600, 900, 128, 600)

MakeScene(spheres, lights) ==
    [spheres |-> spheres, lights |-> lights, background |-> Background]

white == Color(1000, 1000, 1000)

\* no sphere at all
SceneEmpty == MakeScene(<< >>, <<Light(V(0, 5, 5), white, 800)>>)
\* the unit sphere of the test bench
SceneUnit == MakeScene(<<Sphere(V(0, 0, 0), ONE, matte)>>,
                       <<Light(V(0, 0, 5), white, 800)>>)
\* a fully mirrored enclosure around the origin: every ray from inside hits it
SceneEnclosure == MakeScene(<<Sphere(V(0, 0, 0), 2 * ONE, mirror)>>,
                            <<Light(V(0, 1, 0), white, 800)>>)
\* three spheres in a row on the z axis, inserted far, near, middle
SceneRow == MakeScene(<<Sphere(V(0, 0, -4), ONE, matte),
                        Sphere(V(0, 0, 4), ONE, glossy),
                        Sphere(V(0, 0, 0), ONE, plain)>>,
                      <<Light(V(0, 5, 0), white, 800),
                        Light(V(0, 0, 8), white, 600)>>)
\* two spheres of the same geometry and different material: an exact tie
SceneTie == MakeScene(<<Sphere(V(0, 0, -4), ONE, matte),
                        Sphere(V(0, 0, 0), ONE, glossy),
                        Sphere(V(0, 0, 0), ONE, matte)>>,
                      <<Light(V(0, 0, 5), white, 800)>>)
\* a light between a lit sphere and a second sphere behind the light
SceneBehindLight == MakeScene(<<Sphere(V(0, 0, 0), ONE, plain),
                                Sphere(V(0, 0, 8), ONE, matte)>>,
                              <<Light(V(0, 0, 3), white, 800)>>)

Scenes == {SceneEmpty, SceneUnit, SceneEnclosure, SceneRow, SceneTie,
           SceneBehindLight}

\* ray origins on the unit grid: the test bench's, the centre, a point on a
\* surface
Origins == {V(0, 0, 5), V(5, 0, 0), V(0, 1, 5), V(0, 0, 0), V(0, 0, 10),
            V(0, 0, 1), V(0, 0, 3)}

\* the vectors handed to the Ray constructor as direction
Directions == {V(0, 0, -1), V(0, 0, 1), V(1, 0, 0), V(0, 0, -5), V(0, 0, 0)}

\* origins 0.001 inside a surface, with the directions through the centre
NearSurface ==
    {<<Vec3(999, 0, 0), V(1, 0, 0)>>, <<Vec3(999, 0, 0), V(-1, 0, 0)>>,
     <<Vec3(0, 0, 1999), V(0, 0, 1)>>, <<Vec3(0, 0, 1999), V(0, 0, -1)>>,
     <<Vec3(999, 0, 0), V(0, 0, 0)>>}

\* the arguments of the Ray constructor: <<origin, direction>>
RayArgs == (Origins \X Directions) \cup NearSurface

\* the light distances handed to intersectShadow
Distances == {0, 1, 2, 2 * ONE, 4 * ONE, 5 * ONE, 6 * ONE, 12 * ONE}

Rays == {Ray(a[1], a[2]) : a \in RayArgs}

-----------------------------------------------------------------------------
(* The geometry harness: one query at a time on a scene, as the test bench *)
(* calls the intersection routine.                                         *)

Idle == [op |-> "none"]

\* no accelerator constructed
AccelIdle == [pc |-> "none"]

\* the geometry harness at rest
GeomIdle ==
    /\ gRay = Ray(V(0, 0, 0), V(0, 0, 0))
    /\ gOut = Idle

\* no trace under way
TraceIdle ==
    /\ tArgs = [ray |-> Ray(V(0, 0, 0), V(0, 0, 0)), depth |-> 0]
    /\ tStack = << >>
    /\ tResult = [done |-> FALSE]
    /\ tCalls = 0
    /\ tSteps = 0

\* a pixel cell: the alpha byte (bits 24..31) and the 24 bits below it
Pixel(alpha, rgb) == [alpha |-> alpha, rgb |-> rgb]

\* a cell of the buffer that "new Uint32[width * height]" left unwritten
Unwritten == [alpha |-> -1, rgb |-> -1]

\* no render under way
RenderIdle ==
    /\ camera = [position |-> V(0, 0, 0), target |-> V(0, 0, 0),
                 up |-> V(0, 1, 0), fov |-> 60]
    /\ width = 0
    /\ height = 0
    /\ nthreads = 1
    /\ phase = "idle"
    /\ nextRow = 0
    /\ workers = << >>
    /\ pixels = << >>
    /\ writes = << >>
    /\ progressOut = << >>
    /\ texture = << >>
    /\ eventQueue = << >>
    /\ polled = << >>

InitGeom ==
    /\ accel = AccelIdle
    /\ variant \in Variants
    /\ scene \in Scenes
    /\ gRay \in Rays
    /\ gOut = Idle
    /\ TraceIdle
    /\ RenderIdle

\* Ray::Ray
NewRay(o, d) ==
    /\ gRay' = Ray(o, d)
    /\ gOut' = Idle
    /\ UNCHANGED <<accel, variant, scene, traceVars, renderVars>>

\* a call of Sphere::intersect on sphere i
CallSphereIntersect(i) ==
    /\ i < Len(scene.spheres)
    /\ gOut' = [op |-> "sphere", idx |-> i,
                res |-> SphereIntersectOf(variant, gRay, sphereAt(scene, i))]
    /\ UNCHANGED <<accel, variant, scene, gRay, traceVars, renderVars>>

\* a call of Scene::intersect
CallSceneIntersect ==
    /\ gOut' = [op |-> "closest", res |-> Scene_intersect(variant, scene, gRay)]
    /\ UNCHANGED <<accel, variant, scene, gRay, traceVars, renderVars>>

\* a call of Scene::intersectShadow (the optimized tracer only)
CallIntersectShadow(d) ==
    /\ variant = "optimized"
    /\ gOut' = [op |-> "shadow", max_distance |-> d,
                res |-> intersectShadow(scene, gRay, d)]
    /\ UNCHANGED <<accel, variant, scene, gRay, traceVars, renderVars>>

NextGeom ==
    \/ \E a \in RayArgs : NewRay(a[1], a[2])
    \/ \E i \in 0..2 : CallSphereIntersect(i)
    \/ CallSceneIntersect
    \/ \E d \in Distances : CallIntersectShadow(d)

SpecGeom == InitGeom /\ [][NextGeom]_vars

-----------------------------------------------------------------------------
(* The reflection step of trace on its own: the combination of a local and *)
(* a reflected colour, for colours and reflectivities in [0, 1].            *)

\* colours whose channels lie in [0, 1]
UnitColors ==
    {Vec3(x, y, z) : x, y, z \in {0, 500, ONE}} \cup {Vec3(1, 999, 333)}

\* reflectivities in [0, 1]
Reflectivities == {0, 1, 300, 500, 999, ONE}

\* the colours and the reflectivity the reflection site is reached with
InitBlend ==
    /\ accel = AccelIdle
    /\ variant \in Variants
    /\ scene = SceneEmpty
    /\ gRay = Ray(V(0, 0, 0), V(0, 0, 0))
    /\ \E local, reflected \in UnitColors : \E k \in Reflectivities :
          gOut = [op |-> "reflection", local |-> local,
                  reflected |-> reflected, refl |-> k]
    /\ TraceIdle
    /\ RenderIdle

\* the assignment to color at the reflection site of trace
CallCombine ==
    /\ gOut.op = "reflection"
    /\ gOut' = [op |-> "combine", local |-> gOut.local,
                reflected |-> gOut.reflected, refl |-> gOut.refl,
                res |-> combine(variant, gOut.local, gOut.reflected, gOut.refl)]
    /\ UNCHANGED <<accel, variant, scene, gRay, traceVars, renderVars>>

NextBlend == CallCombine

SpecBlend == InitBlend /\ [][NextBlend]_vars

-----------------------------------------------------------------------------
(* Scene::trace, one invocation at a time.  A frame is one invocation:      *)
(* "call" before its body has run, "await" while its recursive call runs,   *)
(* "ret" once its return value (color) is known.                            *)

\* the largest depth argument a trace is started with
MaxStartDepth == 5

CallFrame(ray, depth) ==
    [ray |-> ray, depth |-> depth, pc |-> "call", color |-> Color(0, 0, 0),
     refl |-> 0, queried |-> FALSE, hit |-> FALSE,
     hit_point |-> Vec3(0, 0, 0), shadows |-> << >>]

\* the in-shadow verdict trace computes for each light at hit_point
shadowVerdicts(v, sc, hit_point) ==
    [i \in 1..Len(sc.lights) |-> inShadow(v, sc, hit_point, sc.lights[i])]

\* The body of trace for frame f up to its return or its recursive call:
\* the frames that replace f on the stack.
enterFrame(v, sc, f) ==
    IF beyondBound(f.depth)
    THEN <<[f EXCEPT !.pc = "ret", !.color = depthColor(sc)]>>
    ELSE LET h == Scene_intersect(v, sc, f.ray)
         IN  IF ~h.hit
             THEN <<[f EXCEPT !.pc = "ret", !.color = missColor(sc),
                              !.queried = TRUE]>>
             ELSE LET m == sphereAt(sc, h.hit_idx).material
                      g == [f EXCEPT !.color = localColor(v, sc, f.ray, h),
                                     !.refl = m.reflectivity,
                                     !.queried = TRUE,
                                     !.hit = TRUE,
                                     !.hit_point = at(f.ray, h.closest_t),
                                     !.shadows = shadowVerdicts(v, sc,
                                                     at(f.ray, h.closest_t))]
                  IN  IF reflects(m, f.depth)
                      THEN <<[g EXCEPT !.pc = "await"],
                             CallFrame(reflectRay(sc, f.ray, h),
                                       nextDepth(f.depth))>>
                      ELSE <<[g EXCEPT !.pc = "ret"]>>

InitTrace ==
    /\ accel = AccelIdle
    /\ variant \in Variants
    /\ scene \in Scenes
    /\ GeomIdle
    /\ RenderIdle
    /\ tArgs \in [ray : Rays, depth : 0..MaxStartDepth]
    /\ tStack = <<CallFrame(tArgs.ray, tArgs.depth)>>
    /\ tResult = [done |-> FALSE]
    /\ tCalls = 0
    /\ tSteps = 0

\* an invocation of trace runs from its entry to its return statement or to
\* its recursive call
TraceEnter ==
    /\ tStack # << >>
    /\ tStack[Len(tStack)].pc = "call"
    /\ tStack' = SubSeq(tStack, 1, Len(tStack) - 1)
                    \o enterFrame(variant, scene, tStack[Len(tStack)])
    /\ tCalls' = tCalls + 1
    /\ tSteps' = tSteps + 1
    /\ UNCHANGED <<accel, variant, scene, geomVars, renderVars, tArgs, tResult>>

\* an invocation returns: to the invocation that awaits it, which combines
\* the reflected colour into its own and returns next, or to the caller
TraceReturn ==
    /\ tStack # << >>
    /\ tStack[Len(tStack)].pc = "ret"
    /\ IF Len(tStack) = 1
       THEN /\ tStack' = << >>
            /\ tResult' = [done |-> TRUE, color |-> tStack[1].color]
       ELSE LET child == tStack[Len(tStack)]
                parent == tStack[Len(tStack) - 1]
            IN  /\ tStack' = SubSeq(tStack, 1, Len(tStack) - 2) \o
                       <<[parent EXCEPT
                            !.pc = "ret",
                            !.color = combine(variant, parent.color,
                                              child.color, parent.refl)]>>
                /\ tResult' = tResult
    /\ tSteps' = tSteps + 1
    /\ UNCHANGED <<accel, variant, scene, geomVars, renderVars, tArgs, tCalls>>

NextTrace == TraceEnter \/ TraceReturn

SpecTrace == InitTrace /\ [][NextTrace]_vars

-----------------------------------------------------------------------------
(* Camera, clamp and Renderer::render.  The loop over the rows is an OpenMP *)
(* parallel for: the runtime hands chunks of consecutive iterations to the  *)
(* threads, each thread runs the body of its iterations in order, and the   *)
(* threads meet at the barrier that ends the loop.                          *)

\* the largest pixel grid and the largest team of threads of a render
MaxWidth == 2
MaxHeight == 2
MaxThreads == 2

Camera(pos, tgt, u, f) == [position |-> pos, target |-> tgt, up |-> u, fov |-> f]

\* tan(fov * M_PI / 180.0 / 2.0) for the fields of view in use
tanHalfFov(fov) == IF fov = 90 THEN ONE ELSE 577

\* Camera::getRay
getRay(cam, u, v, aspect_ratio) ==
    LET h == tanHalfFov(cam.fov)
        viewport_height == fmul(2 * ONE, h)
        viewport_width == fmul(aspect_ratio, viewport_height)
        w == normalize(sub(cam.position, cam.target))
        u_vec == normalize(cross(cam.up, w))
        v_vec == cross(w, u_vec)
        horizontal == scale(u_vec, viewport_width)
        vertical == scale(v_vec, viewport_height)
        lower_left == sub(sub(sub(cam.position, divide(horizontal, 2 * ONE)),
                              divide(vertical, 2 * ONE)), w)
        direction == sub(add(add(lower_left, scale(horizontal, u)),
                             scale(vertical, v)), cam.position)
    IN  Ray(cam.position, direction)

\* clamp
clamp(c) == Vec3(min(ONE, max(0, c.x)), min(ONE, max(0, c.y)),
                 min(ONE, max(0, c.z)))

\* Uint8(255.99 * x) for a clamped channel x
toByte(x) == (25599 * x) \div (100 * ONE)

\* a pixel word with the red and the blue byte in each other's place
packSwapped(c) ==
    Pixel(255, toByte(c.z) * 65536 + toByte(c.y) * 256 + toByte(c.x))

\* (0xFF << 24) | (r << 16) | (g << 8) | b
pack(c) == Pixel(255, toByte(c.x) * 65536 + toByte(c.y) * 256 + toByte(c.z))

\* u = double(i) / (width - 1)
colCoordinate(w, i) == fdiv(i * ONE, (w - 1) * ONE)

\* a row coordinate that grows with the row index
rowCoordinateDownward(h, j) == fdiv(j * ONE, (h - 1) * ONE)

\* v = double(height - 1 - j) / (height - 1)
rowCoordinate(h, j) == fdiv((h - 1 - j) * ONE, (h - 1) * ONE)

\* the primary ray of pixel (i, j).  A NaN coordinate makes every component
\* of the direction getRay computes NaN (0 * NaN is NaN too), its length NaN
\* and "len > 0" false, so Ray's constructor stores the zero vector.
pixelRay(cam, w, h, j, i) ==
    IF colCoordinate(w, i) = NaN \/ rowCoordinate(h, j) = NaN
    THEN [origin |-> cam.position, direction |-> Vec3(0, 0, 0)]
    ELSE getRay(cam, colCoordinate(w, i), rowCoordinate(h, j),
                fdiv(w * ONE, h * ONE))

\* the body of the inner loop up to the store: the value of pixel (i, j)
pixelColor(v, sc, cam, w, h, j, i) ==
    pack(clamp(trace(v, sc, pixelRay(cam, w, h, j, i), 0)))

\* an index that leaves out the row stride
PixelIndexNoStride(w, j, i) == j + i

\* the index "j * width + i" of the store
PixelIndex(w, j, i) == j * w + i

\* The sizes of the chunk the runtime may hand out with `remaining` iterations
\* left: one iteration under schedule(dynamic, 1) of the baseline, and under
\* schedule(guided) of the optimized tracer a size the implementation picks.
chunkSizes(v, remaining) == IF v = "baseline" THEN {1} ELSE 1..remaining

\* a runtime that leaves one iteration out after every chunk
afterChunkSkipping(first, n) == first + n + 1

\* the first iteration left once the chunk of n iterations at first is given
afterChunk(first, n) == first + n

\* render run by one thread: the rows in order and the columns in order,
\* from pixel number k on (k counts the passes of the inner loop)
RECURSIVE renderFrom(_, _, _, _, _, _, _)
renderFrom(v, sc, cam, w, h, k, buf) ==
    IF k >= w * h THEN buf
    ELSE renderFrom(v, sc, cam, w, h, k + 1,
                    [buf EXCEPT ![PixelIndex(w, k \div w, k % w)] =
                                    pixelColor(v, sc, cam, w, h, k \div w, k % w)])

renderSequential(v, sc, cam, w, h) ==
    renderFrom(v, sc, cam, w, h, 0, [idx \in 0..(w * h - 1) |-> Unwritten])

Threads == 1..nthreads

Worker(pc, j, last, i) == [pc |-> pc, j |-> j, last |-> last, i |-> i]

\* the camera of main: Camera camera(Vec3(0, 1, 5), Vec3(0, 0, 0))
Cameras == {Camera(V(0, 1, 5), V(0, 0, 0), V(0, 1, 0), 60)}

\* two spheres in the lower corners of the view of the camera of main, under
\* a bright light at the camera
SceneStage == MakeScene(<<Sphere(V(-2, -2, 2), ONE, matte),
                          Sphere(V(2, -2, 2), ONE, glossy)>>,
                        <<Light(V(0, 1, 5), white, 2 * ONE)>>)

RenderScenes == {SceneRow, SceneStage}

Init ==
    /\ accel = AccelIdle
    /\ variant \in Variants
    /\ scene \in RenderScenes
    /\ GeomIdle
    /\ TraceIdle
    /\ camera \in Cameras
    /\ width \in 2..MaxWidth
    /\ height \in 2..MaxHeight
    /\ nthreads \in 1..MaxThreads
    /\ phase = "idle"
    /\ nextRow = 0
    /\ workers = << >>
    /\ pixels = [idx \in 0..(width * height - 1) |-> Unwritten]
    /\ writes = [idx \in 0..(width * height - 1) |-> << >>]
    /\ progressOut = << >>
    /\ texture = << >>
    /\ eventQueue = << >>
    /\ polled = << >>

\* render up to the parallel region: the team of threads starts
RenderBegin ==
    /\ phase = "idle"
    /\ phase' = "parallel"
    /\ workers' = [t \in Threads |-> Worker("grab", 0, 0, 0)]
    /\ nextRow' = 0
    /\ UNCHANGED <<accel, variant, scene, geomVars, traceVars,
                   eventQueue, polled, camera,
                   width, height,
                   nthreads, pixels, writes, progressOut, texture>>

\* thread t asks the runtime for iterations: it gets the next chunk, or goes
\* to the barrier when none is left
TakeChunk(t) ==
    /\ phase = "parallel"
    /\ workers[t].pc = "grab"
    /\ \/ /\ nextRow < height
          /\ \E n \in chunkSizes(variant, height - nextRow) :
                /\ workers' = [workers EXCEPT
                                 ![t] = Worker("lock", nextRow, nextRow + n, 0)]
                /\ nextRow' = afterChunk(nextRow, n)
       \/ /\ nextRow >= height
          /\ workers' = [workers EXCEPT ![t] = Worker("barrier", 0, 0, 0)]
          /\ nextRow' = nextRow
    /\ UNCHANGED <<accel, variant, scene, geomVars, traceVars,
                   eventQueue, polled, camera,
                   width, height,
                   nthreads, phase, pixels, writes, progressOut, texture>>

\* entry to the progress block without the "omp critical": nothing is waited
\* for
ProgressEnterUnserialized(t) ==
    /\ phase = "parallel"
    /\ workers[t].pc = "lock"
    /\ workers' = [workers EXCEPT ![t].pc = "critical"]
    /\ UNCHANGED <<accel, variant, scene, geomVars, traceVars,
                   eventQueue, polled, camera,
                   width, height,
                   nthreads, phase, nextRow, pixels, writes, progressOut,
                   texture>>

\* thread t enters the critical block of iteration j: no other thread is in it
ProgressEnter(t) ==
    /\ phase = "parallel"
    /\ workers[t].pc = "lock"
    /\ \A o \in Threads : workers[o].pc # "critical"
    /\ workers' = [workers EXCEPT ![t].pc = "critical"]
    /\ UNCHANGED <<accel, variant, scene, geomVars, traceVars,
                   eventQueue, polled, camera,
                   width, height,
                   nthreads, phase, nextRow, pixels, writes, progressOut,
                   texture>>

\* the critical block: the progress line of every 50th row
ProgressLeave(t) ==
    /\ phase = "parallel"
    /\ workers[t].pc = "critical"
    /\ progressOut' = IF workers[t].j % 50 = 0
                      THEN Append(progressOut, (100 * workers[t].j) \div height)
                      ELSE progressOut
    /\ workers' = [workers EXCEPT ![t].pc = "row", ![t].i = 0]
    /\ UNCHANGED <<accel, variant, scene, geomVars, traceVars,
                   eventQueue, polled, camera,
                   width, height,
                   nthreads, phase, nextRow, pixels, writes, texture>>

\* a pass of the inner loop whose trace leaves the colour it computed behind
\* in the Scene
WritePixelCachingInScene(t) ==
    /\ phase = "parallel"
    /\ workers[t].pc = "row"
    /\ LET j == workers[t].j
           i == workers[t].i
           idx == PixelIndex(width, j, i)
       IN  /\ pixels' = [pixels EXCEPT
                           ![idx] = pixelColor(variant, scene, camera, width,
                                               height, j, i)]
           /\ scene' = [scene EXCEPT !.background =
                           trace(variant, scene,
                                 pixelRay(camera, width, height, j, i), 0)]
           /\ writes' = [writes EXCEPT ![idx] = Append(@, [row |-> j, thread |-> t])]
           /\ workers' = [workers EXCEPT ![t] =
                 IF i + 1 < width THEN Worker("row", j, workers[t].last, i + 1)
                 ELSE IF j + 1 < workers[t].last
                      THEN Worker("lock", j + 1, workers[t].last, 0)
                      ELSE Worker("grab", 0, 0, 0)]
    /\ UNCHANGED <<accel, variant, geomVars, traceVars,
                   eventQueue, polled, camera,
                   width, height,
                   nthreads, phase, nextRow, progressOut, texture>>

\* one pass of the inner loop of thread t: pixel (i, j) is traced and stored;
\* after the last column the thread moves to its next iteration, or asks for
\* a new chunk
WritePixel(t) ==
    /\ phase = "parallel"
    /\ workers[t].pc = "row"
    /\ LET j == workers[t].j
           i == workers[t].i
           idx == PixelIndex(width, j, i)
       IN  /\ pixels' = [pixels EXCEPT
                           ![idx] = pixelColor(variant, scene, camera, width,
                                               height, j, i)]
           /\ writes' = [writes EXCEPT ![idx] = Append(@, [row |-> j, thread |-> t])]
           /\ workers' = [workers EXCEPT ![t] =
                 IF i + 1 < width THEN Worker("row", j, workers[t].last, i + 1)
                 ELSE IF j + 1 < workers[t].last
                      THEN Worker("lock", j + 1, workers[t].last, 0)
                      ELSE Worker("grab", 0, 0, 0)]
    /\ UNCHANGED <<accel, variant, scene, geomVars, traceVars,
                   eventQueue, polled, camera,
                   width, height,
                   nthreads, phase, nextRow, progressOut, texture>>

\* the end of render without the barrier of the loop: the buffer is presented
\* once every row has been handed out
RenderPresentNoBarrier ==
    /\ phase = "parallel"
    /\ nextRow >= height
    /\ texture' = pixels
    /\ phase' = "presented"
    /\ UNCHANGED <<accel, variant, scene, geomVars, traceVars,
                   eventQueue, polled, camera,
                   width, height,
                   nthreads, nextRow, workers, pixels, writes, progressOut>>

\* the end of render: every thread has reached the barrier, and the buffer
\* is copied to the texture and presented
RenderPresent ==
    /\ phase = "parallel"
    /\ \A t \in Threads : workers[t].pc = "barrier"
    /\ texture' = pixels
    /\ phase' = "presented"
    /\ UNCHANGED <<accel, variant, scene, geomVars, traceVars,
                   eventQueue, polled, camera,
                   width, height,
                   nthreads, nextRow, workers, pixels, writes, progressOut>>

Next ==
    \/ RenderBegin
    \/ \E t \in Threads : TakeChunk(t)
    \/ \E t \in Threads : ProgressEnter(t)
    \/ \E t \in Threads : ProgressLeave(t)
    \/ \E t \in Threads : WritePixel(t)
    \/ RenderPresent

Spec == Init /\ [][Next]_vars

-----------------------------------------------------------------------------
(* main: display.render(scene, camera) followed by display.waitForClose(),
   with the window system posting events at any time *)

MaxEvents == 2

\* an SDL_Event: its type and, for a key event, its key
Event(type, sym) == [type |-> type, sym |-> sym]

\* the events the window system may post
Events ==
    {Event("SDL_QUIT", "none"),
     Event("SDL_KEYDOWN", "SDLK_ESCAPE"),
     Event("SDL_KEYDOWN", "SDLK_SPACE"),
     Event("SDL_KEYUP", "SDLK_ESCAPE")}

\* handleEvents returning false on any key press
endsLoopOnAnyKey(e) == e.type = "SDL_QUIT" \/ e.type = "SDL_KEYDOWN"

\* the two tests of handleEvents that make it return false
endsLoop(e) ==
    \/ e.type = "SDL_QUIT"
    \/ e.type = "SDL_KEYDOWN" /\ e.sym = "SDLK_ESCAPE"

\* main up to the call of render, on a grid of 2 x 2 pixels
InitMain ==
    /\ accel = AccelIdle
    /\ variant \in Variants
    /\ scene \in RenderScenes
    /\ GeomIdle
    /\ TraceIdle
    /\ camera \in Cameras
    /\ width = 2
    /\ height = 2
    /\ nthreads \in 1..MaxThreads
    /\ phase = "idle"
    /\ nextRow = 0
    /\ workers = << >>
    /\ pixels = [idx \in 0..(width * height - 1) |-> Unwritten]
    /\ writes = [idx \in 0..(width * height - 1) |-> << >>]
    /\ progressOut = << >>
    /\ texture = << >>
    /\ eventQueue = << >>
    /\ polled = << >>

\* the window system posts an event: the user closes the window or presses
\* or releases a key, at any time while the program runs
PostEvent(e) ==
    /\ phase # "closed"
    /\ Len(eventQueue) + Len(polled) < MaxEvents
    /\ eventQueue' = Append(eventQueue, e)
    /\ UNCHANGED <<accel, variant, scene, geomVars, traceVars, camera, width, height,
                   nthreads, phase, nextRow, workers, pixels, writes,
                   progressOut, texture, polled>>

\* render has returned: waitForClose starts and calls handleEvents
WaitForClose ==
    /\ phase = "presented"
    /\ phase' = "polling"
    /\ UNCHANGED <<accel, variant, scene, geomVars, traceVars, camera, width, height,
                   nthreads, nextRow, workers, pixels, writes, progressOut,
                   texture, eventQueue, polled>>

\* one pass of the loop of handleEvents: SDL_PollEvent returns 0 on an empty
\* queue and handleEvents returns true; otherwise it returns the oldest
\* event, on which handleEvents returns false, so that waitForClose returns
\* after its delay, or goes on polling
PollEvent ==
    /\ phase = "polling"
    /\ IF eventQueue = << >>
       THEN /\ phase' = "delay"
            /\ UNCHANGED <<eventQueue, polled>>
       ELSE /\ polled' = Append(polled, Head(eventQueue))
            /\ eventQueue' = Tail(eventQueue)
            /\ phase' = IF endsLoop(Head(eventQueue)) THEN "closed"
                        ELSE "polling"
    /\ UNCHANGED <<accel, variant, scene, geomVars, traceVars, camera, width, height,
                   nthreads, nextRow, workers, pixels, writes, progressOut,
                   texture>>

\* SDL_Delay(16) after a handleEvents that returned true, and the next call
Delay ==
    /\ phase = "delay"
    /\ phase' = "polling"
    /\ UNCHANGED <<accel, variant, scene, geomVars, traceVars, camera, width, height,
                   nthreads, nextRow, workers, pixels, writes, progressOut,
                   texture, eventQueue, polled>>

NextMain ==
    \/ Next
    \/ \E e \in Events : PostEvent(e)
    \/ WaitForClose
    \/ PollEvent
    \/ Delay

SpecMain == InitMain /\ [][NextMain]_vars

-----------------------------------------------------------------------------
(* The test bench of the hardware accelerator: RaySphereAccelerator::intersect
   driving the device under test, whose latency and results are the
   device's own *)

\* const double SCALE = (1 << FRAC_BITS)
SCALE == 65536

\* int timeout = 100
TIMEOUT == 100

\* static_cast<int32_t>: truncation towards zero
truncate(x, y) == IF x >= 0 THEN x \div y ELSE 0 - ((0 - x) \div y)

\* double_to_fixed and fixed_to_double, Q16.16
double_to_fixed(val) == truncate(val * SCALE, ONE)
fixed_to_double(val) == truncate(val * ONE, SCALE)

\* the arguments of the calls in test_basic_intersection and test_miss
AccelCalls ==
    {[o |-> V(0, 0, 5), d |-> V(0, 0, -1), c |-> V(0, 0, 0), radius |-> ONE],
     [o |-> V(0, 0, 5), d |-> V(0, 1, 0), c |-> V(0, 0, 0), radius |-> ONE]}

\* the values the caller's variable t may hold before the call
PriorT == {0, 7 * ONE}

\* the values the device may drive on t_out
TOut == {double_to_fixed(4 * ONE), double_to_fixed(1500)}

\* what the outputs of the device may be after a rising clock edge while it
\* has not raised done: still busy, or done with its hit flag and t_out
DeviceOutputs ==
    {[done |-> FALSE, hit |-> FALSE, t_out |-> 0]} \cup
    {[done |-> TRUE, hit |-> h, t_out |-> v] : h \in BOOLEAN, v \in TOut}

\* the accelerator after its constructor (reset: two ticks with rst_n low),
\* about to be called with the arguments args
InitAccel ==
    /\ variant = "optimized"
    /\ scene = SceneEmpty
    /\ GeomIdle
    /\ TraceIdle
    /\ RenderIdle
    /\ \E args \in AccelCalls : \E t0 \in PriorT :
          accel = [pc |-> "call", args |-> args, t |-> t0, ports |-> << >>,
                   start |-> 0, out |-> [done |-> FALSE, hit |-> FALSE,
                                         t_out |-> 0],
                   timeout |-> 0, startTicks |-> 0, pollTicks |-> 0,
                   ret |-> FALSE, cerr |-> << >>]

\* intersect up to "dut->start = 1": the inputs are converted and driven
AccelDrive ==
    /\ accel.pc = "call"
    /\ accel' = [accel EXCEPT
          !.ports = [ray_ox |-> double_to_fixed(accel.args.o.x),
                     ray_oy |-> double_to_fixed(accel.args.o.y),
                     ray_oz |-> double_to_fixed(accel.args.o.z),
                     ray_dx |-> double_to_fixed(accel.args.d.x),
                     ray_dy |-> double_to_fixed(accel.args.d.y),
                     ray_dz |-> double_to_fixed(accel.args.d.z),
                     sphere_cx |-> double_to_fixed(accel.args.c.x),
                     sphere_cy |-> double_to_fixed(accel.args.c.y),
                     sphere_cz |-> double_to_fixed(accel.args.c.z),
                     sphere_r2 |-> double_to_fixed(
                                      fmul(accel.args.radius,
                                           accel.args.radius))],
          !.start = 1,
          !.pc = "start"]
    /\ UNCHANGED <<variant, scene, geomVars, traceVars, renderVars>>

\* "tick(); dut->start = 0; int timeout = 100;": the cycle in which the
\* device sees start
AccelStartTick ==
    /\ accel.pc = "start"
    /\ \E out \in DeviceOutputs :
          accel' = [accel EXCEPT !.out = out,
                                 !.startTicks = accel.startTicks + accel.start,
                                 !.start = 0,
                                 !.timeout = TIMEOUT,
                                 !.pc = "poll"]
    /\ UNCHANGED <<variant, scene, geomVars, traceVars, renderVars>>

\* one pass of "while (!dut->done && timeout > 0) { tick(); timeout--; }"
AccelPollTick ==
    /\ accel.pc = "poll"
    /\ ~accel.out.done
    /\ accel.timeout > 0
    /\ \E out \in DeviceOutputs :
          accel' = [accel EXCEPT !.out = out,
                                 !.startTicks = accel.startTicks + accel.start,
                                 !.pollTicks = accel.pollTicks + 1,
                                 !.timeout = accel.timeout - 1]
    /\ UNCHANGED <<variant, scene, geomVars, traceVars, renderVars>>

\* the loop is left: "if (timeout == 0)" reports the timeout and returns
\* false; otherwise the hit flag is returned and, on a hit, t is set
AccelReturn ==
    /\ accel.pc = "poll"
    /\ accel.out.done \/ accel.timeout <= 0
    /\ accel' =
          IF accel.timeout = 0
          THEN [accel EXCEPT !.cerr = Append(accel.cerr, "Hardware timeout!"),
                             !.ret = FALSE,
                             !.pc = "returned"]
          ELSE [accel EXCEPT !.ret = accel.out.hit,
                             !.t = IF accel.out.hit
                                   THEN fixed_to_double(accel.out.t_out)
                                   ELSE accel.t,
                             !.pc = "returned"]
    /\ UNCHANGED <<variant, scene, geomVars, traceVars, renderVars>>

NextAccel ==
    \/ AccelDrive
    \/ AccelStartTick
    \/ AccelPollTick
    \/ AccelReturn

SpecAccel == InitAccel /\ [][NextAccel]_vars

-----------------------------------------------------------------------------
(* The image coordinates of render: the inner loop of Renderer::render up to
   camera.getRay, on pixel grids of every shape from 1 x 1 on *)

MaxGrid == 4

InitGrid ==
    /\ accel = AccelIdle
    /\ variant \in Variants
    /\ scene = SceneEmpty
    /\ gRay = Ray(V(0, 0, 0), V(0, 0, 0))
    /\ camera \in Cameras
    /\ width \in 1..MaxGrid
    /\ height \in 1..MaxGrid
    /\ \E j \in 0..(height - 1) : \E i \in 0..(width - 1) :
          gOut = [op |-> "pixel", j |-> j, i |-> i]
    /\ nthreads = 1
    /\ phase = "idle"
    /\ nextRow = 0
    /\ workers = << >>
    /\ pixels = << >>
    /\ writes = << >>
    /\ progressOut = << >>
    /\ texture = << >>
    /\ eventQueue = << >>
    /\ polled = << >>
    /\ TraceIdle

\* u, v and the ray of pixel (i, j), as the inner loop computes them
CallGetRay ==
    /\ gOut.op = "pixel"
    /\ gOut' = [op |-> "coordinates", j |-> gOut.j, i |-> gOut.i,
                u |-> colCoordinate(width, gOut.i),
                v |-> rowCoordinate(height, gOut.j)]
    /\ gRay' = pixelRay(camera, width, height, gOut.j, gOut.i)
    /\ UNCHANGED <<accel, variant, scene, traceVars, renderVars>>

NextGrid == CallGetRay

SpecGrid == InitGrid /\ [][NextGrid]_vars

-----------------------------------------------------------------------------
(* Properties of the intersection queries (under SpecGeom) *)

Minimum(S) == CHOOSE x \in S : \A y \in S : x <= y

UnitDirection(ray) == lengthSquared(ray.direction) = ONE

\* The real roots of the ray-sphere quadratic a*t^2 + b*t + c = 0 with
\* a = d.d, b = 2 oc.d, c = |oc|^2 - r^2, for a ray of unit direction.
QuadraticRoots(ray, s) ==
    LET oc == sub(ray.origin, s.center)
        a == dot(ray.direction, ray.direction)
        b == 2 * dot(oc, ray.direction)
        c == dot(oc, oc) - fmul(s.radius, s.radius)
        disc == fmul(b, b) - 4 * fmul(a, c)
    IN  IF disc < 0 THEN {}
        ELSE {fdiv((0 - b) - fsqrt(disc), 2 * a),
              fdiv((0 - b) + fsqrt(disc), 2 * a)}

\* the point of the ray at parameter t lies on the sphere
OnSphere(ray, s, t) ==
    lengthSquared(sub(at(ray, t), s.center)) = fmul(s.radius, s.radius)

\* the discriminant |oc.d|^2 - c of the quadratic is a perfect square, so its
\* roots are exactly representable
ExactRoots(ray, s) ==
    LET oc == sub(ray.origin, s.center)
        disc == fmul(dot(oc, ray.direction), dot(oc, ray.direction))
                    - (dot(oc, oc) - fmul(s.radius, s.radius))
    IN  disc >= 0 /\ fsqrt(disc) * fsqrt(disc) = disc * ONE

\* the ray origin lies strictly inside the sphere
StrictlyInside(ray, s) ==
    lengthSquared(sub(ray.origin, s.center)) < fmul(s.radius, s.radius)

\* the indices of the spheres of the scene that the ray hits
HitSet(v, sc, ray) ==
    {i \in 0..(Len(sc.spheres) - 1) : SphereIntersectOf(v, ray, sphereAt(sc, i)).hit}

HitT(v, sc, ray, i) == SphereIntersectOf(v, ray, sphereAt(sc, i)).t

\* C4: intersectShadow(ray, d) is true exactly when the closest-hit query
\* Scene::intersect on the same ray reports a hit with epsilon < t < d.
C4_ShadowIsBoundedClosestHit ==
    gOut.op = "shadow" =>
        LET c == Scene_intersect("optimized", scene, gRay)
        IN  gOut.res = (c.hit /\ EPS < c.closest_t /\ c.closest_t < gOut.max_distance)

\* a shadow query that answered "in shadow" after skipping a sphere, and one
\* that answered "no occlusion" although the ray hits a sphere (beyond d)
C4_Witness ==
    /\ gOut.op = "shadow"
    /\ Len(scene.spheres) >= 2
    /\ gOut.res
    /\ ~Sphere_intersect(gRay, sphereAt(scene, 0)).hit

\* C6: Scene::intersect reports a hit exactly when some sphere is hit, and
\* then closest_t is the minimum t over the spheres hit and hit_idx the lowest
\* index among the spheres that give that minimum.
C6_ClosestIsMinimumLowestIndex ==
    gOut.op = "closest" =>
        LET H == HitSet(variant, scene, gRay)
            T == {HitT(variant, scene, gRay, i) : i \in H}
        IN  /\ gOut.res.hit <=> H # {}
            /\ gOut.res.hit =>
                  /\ gOut.res.closest_t = Minimum(T)
                  /\ gOut.res.hit_idx =
                        Minimum({i \in H : HitT(variant, scene, gRay, i) = Minimum(T)})

\* an exact tie between two spheres, won by the earlier one
C6_Witness ==
    /\ gOut.op = "closest"
    /\ gOut.res.hit
    /\ \E i \in HitSet(variant, scene, gRay) :
          /\ i > gOut.res.hit_idx
          /\ HitT(variant, scene, gRay, i) = gOut.res.closest_t

C8_InsideAlwaysHitsExit ==
    (gOut.op = "sphere" /\ UnitDirection(gRay)
        /\ StrictlyInside(gRay, sphereAt(scene, gOut.idx))) =>
        LET roots == QuadraticRoots(gRay, sphereAt(scene, gOut.idx))
        IN  /\ gOut.res.hit
            /\ gOut.res.t = 0 - Minimum({0 - t : t \in roots})

\* the direction the Ray constructor stores for a zero-length vector
ZeroDirection(ray) == ray.direction = Vec3(0, 0, 0)

\* C8 amended: with the ray origin strictly inside the sphere and a direction
\* of unit length, Sphere::intersect reports a hit exactly when the exit root
\* exceeds epsilon, and then t is that exit root (positive, never the entry
\* root); an exit root of at most epsilon is reported as no intersection.
\* With the zero direction (a ray that has no exit root) the general form
\* reports no intersection and the half-b form reports t = sqrt(r^2 - |oc|^2)
\* when that exceeds epsilon.
C8_InsideHitsExitAboveEpsilon ==
    (gOut.op = "sphere" /\ StrictlyInside(gRay, sphereAt(scene, gOut.idx))) =>
        LET s == sphereAt(scene, gOut.idx)
            roots == QuadraticRoots(gRay, s)
            exit == 0 - Minimum({0 - t : t \in roots})
            chord == fsqrt(fmul(s.radius, s.radius)
                             - lengthSquared(sub(gRay.origin, s.center)))
        IN  /\ UnitDirection(gRay) =>
                  /\ roots # {}
                  /\ gOut.res.hit <=> exit > EPS
                  /\ gOut.res.hit =>
                        /\ gOut.res.t = exit
                        /\ gOut.res.t > 0
                        /\ \A t \in roots : t < 0 => gOut.res.t # t
            /\ (ZeroDirection(gRay) /\ variant = "baseline") => ~gOut.res.hit
            /\ (ZeroDirection(gRay) /\ variant = "optimized") =>
                  /\ gOut.res.hit <=> chord > EPS
                  /\ gOut.res.hit => gOut.res.t = chord
            /\ UnitDirection(gRay) \/ ZeroDirection(gRay)

\* origin at the centre of the radius-2 sphere, direction (1,0,0): t = 2
C8_Witness ==
    /\ gOut.op = "sphere"
    /\ gRay = Ray(V(0, 0, 0), V(1, 0, 0))
    /\ sphereAt(scene, gOut.idx).radius = 2 * ONE
    /\ sphereAt(scene, gOut.idx).center = V(0, 0, 0)
    /\ gOut.res = Hit(2 * ONE)

OtherVariant(v) == IF v = "optimized" THEN "baseline" ELSE "optimized"

\* the two results agree on hit/no-hit and on t (1e-6 is below the unit of
\* the arithmetic, so t must be equal)
SameResult(r1, r2) == r1.hit = r2.hit /\ (r1.hit => r1.t = r2.t)

\* C9 as stated: for every sphere and every ray built by the Ray constructor
\* the general quadratic form and the half-b form agree on hit/no-hit and t.
C9_FormsAgreeOnEveryRay ==
    gOut.op = "sphere" =>
        SameResult(gOut.res,
                   SphereIntersectOf(OtherVariant(variant), gRay,
                                     sphereAt(scene, gOut.idx)))

\* On rays whose stored direction has unit length the two forms agree.
FormsAgreeOnUnitDirection ==
    (gOut.op = "sphere" /\ UnitDirection(gRay)) =>
        SameResult(gOut.res,
                   SphereIntersectOf(OtherVariant(variant), gRay,
                                     sphereAt(scene, gOut.idx)))

-----------------------------------------------------------------------------
(* Properties of trace (under SpecTrace) *)

\* the stepwise trace returns what the function trace does
TraceAgreesWithFunction ==
    tResult.done => tResult.color = trace(variant, scene, tArgs.ray, tArgs.depth)

\* C1: a trace started at depth 0 terminates, and no nested invocation runs
\* with a depth above MAX_DEPTH, in every scene (the mirrored enclosure too).
\* Termination is bounded: every step of a run is counted in tSteps, a run
\* takes at most 2 * (MAX_DEPTH + 1) steps (each invocation enters once and
\* returns once), and until the outermost call has returned the innermost
\* invocation can always take its next step.
C1_TraceBoundedAndTerminates ==
    tArgs.depth = 0 =>
        /\ \A i \in 1..Len(tStack) : tStack[i].depth <= MAX_DEPTH
        /\ tSteps <= 2 * (MAX_DEPTH + 1)
        /\ ~tResult.done =>
              (tStack # << >> /\ tStack[Len(tStack)].pc \in {"call", "ret"})
        /\ tResult.done => tStack = << >>

\* in the mirrored enclosure a trace from depth 0 has nested MAX_DEPTH + 1
\* invocations and returned
C1_Witness ==
    /\ scene = SceneEnclosure
    /\ tArgs.depth = 0
    /\ tResult.done
    /\ tCalls = MAX_DEPTH + 1

\* C10: trace on a ray that intersects no sphere returns exactly the
\* background colour, whatever the depth argument.
C10_MissReturnsBackground ==
    (tResult.done /\ HitSet(variant, scene, tArgs.ray) = {}) =>
        tResult.color = scene.background

\* a miss in a scene that has spheres, at a depth within the bound
C10_Witness ==
    /\ tResult.done
    /\ scene.spheres # << >>
    /\ HitSet(variant, scene, tArgs.ray) = {}
    /\ tArgs.depth = MAX_DEPTH
    /\ tResult.color = scene.background

\* C5: at every hit of trace and for every light, the shadow test of the
\* tracer that runs (baseline: closest-hit query on the shadow ray; optimized:
\* intersectShadow bounded by the light distance) gives the verdict the other
\* tracer's shadow test gives, so both accumulate the same lights.
C5_ShadowTestsEquivalent ==
    \A i \in 1..Len(tStack) :
        tStack[i].hit =>
            tStack[i].shadows =
                shadowVerdicts(OtherVariant(variant), scene, tStack[i].hit_point)

-----------------------------------------------------------------------------
(* Properties of render (under Spec) *)

\* the iterations thread t holds and has not finished
RowsHeld(t) ==
    IF workers[t].pc \in {"lock", "critical", "row"}
    THEN workers[t].j..(workers[t].last - 1)
    ELSE {}

\* C2: during a render, under every assignment of rows to threads and every
\* interleaving, no cell is stored to more than once, every store to a cell
\* is made by the iteration of the cell's own row, no row is held by two
\* threads, and when the loop has ended every cell has been stored to exactly
\* once.
C2_EachCellWrittenOnceByItsRow ==
    /\ \A idx \in DOMAIN writes :
          /\ Len(writes[idx]) <= 1
          /\ \A k \in 1..Len(writes[idx]) : writes[idx][k].row = idx \div width
          /\ phase = "presented" => Len(writes[idx]) = 1
    /\ phase = "parallel" =>
          \A t1, t2 \in Threads : t1 # t2 => RowsHeld(t1) \cap RowsHeld(t2) = {}

\* a finished render in which two threads stored to the buffer, one of them
\* to a whole row
C2_Witness ==
    /\ phase = "presented"
    /\ \E a, b \in DOMAIN writes :
          /\ a \div width # b \div width
          /\ writes[a][1].thread # writes[b][1].thread
    /\ \E a, b \in DOMAIN writes :
          /\ a # b
          /\ a \div width = b \div width
          /\ writes[a][1].thread = writes[b][1].thread

\* C3: whatever the number of threads, the chunks the schedule hands out and
\* the interleaving of the threads, the buffer a render presents is the one
\* a single thread running the rows in order produces.
C3_BufferIndependentOfSchedule ==
    phase = "presented" =>
        /\ pixels = renderSequential(variant, scene, camera, width, height)
        /\ texture = pixels

\* a render with a team of two threads in which one thread ran both of the
\* first two rows presented the single-thread buffer, with more than one
\* pixel value in it
C3_Witness ==
    /\ phase = "presented"
    /\ nthreads = 2
    /\ writes[0][1].thread = writes[width][1].thread
    /\ texture = renderSequential(variant, scene, camera, width, height)
    /\ \E a, b \in DOMAIN texture : texture[a] # texture[b]

-----------------------------------------------------------------------------
(* Properties of the reflection step (under SpecBlend) *)

\* every channel of the colour lies in [0, 1]
InUnitRange(c) == \A x \in {c.x, c.y, c.z} : 0 <= x /\ x <= ONE

\* C11: for reflectivity k in [0, 1] and local and reflected colours with
\* channels in [0, 1], every channel of the convex blend of the optimized
\* tracer lies in [0, 1]; the additive combination of the baseline exceeds 1
\* on some such inputs (wherever local + reflected * k > 1).
C11_BlendStaysInUnitRange ==
    /\ (gOut.op = "combine" /\ variant = "optimized") => InUnitRange(gOut.res)
    /\ (gOut.op = "combine" /\ variant = "baseline") =>
          (InUnitRange(gOut.res) <=>
              \A ch \in {"x", "y", "z"} :
                  gOut.local[ch] + fmul(gOut.reflected[ch], gOut.refl) <= ONE)
    /\ \E local, reflected \in UnitColors : \E k \in Reflectivities :
          ~InUnitRange(combine("baseline", local, reflected, k))

\* white blended with white at reflectivity 0.5 stays white, where the
\* additive combination of the same inputs reaches 1.5
C11_Witness ==
    /\ gOut.op = "combine"
    /\ variant = "optimized"
    /\ gOut.local = Vec3(ONE, ONE, ONE)
    /\ gOut.reflected = Vec3(ONE, ONE, ONE)
    /\ gOut.refl = 500
    /\ gOut.res = Vec3(ONE, ONE, ONE)
    /\ combine("baseline", gOut.local, gOut.reflected, gOut.refl).x = 1500

-----------------------------------------------------------------------------
(* Properties of Ray (under SpecGeom) *)

\* C12: every Ray has a direction of unit length, whatever origin and
\* direction vector its constructor was given.
C12_EveryRayHasUnitDirection == UnitDirection(gRay)

-----------------------------------------------------------------------------
(* Properties of the pixel buffer (under Spec) *)

\* the byte of the pixel word at bit position shift * 8
ByteAt(rgb, shift) ==
    IF shift = 2 THEN (rgb \div 65536) % 256
    ELSE IF shift = 1 THEN (rgb \div 256) % 256
    ELSE rgb % 256

\* b is the truncation of 255.99 times the channel x clamped to [0, 1]
IsByteOfChannel(b, x) ==
    LET c == IF x < 0 THEN 0 ELSE IF x > ONE THEN ONE ELSE x
    IN  /\ b \in 0..255
        /\ b * 100 * ONE <= 25599 * c
        /\ 25599 * c < (b + 1) * 100 * ONE

\* C13: every cell that has been stored, at index j * width + i, holds the
\* pixel of column i of row j: alpha byte 0xFF, and the red, green and blue
\* bytes at bits 16, 8 and 0, each the truncation of 255.99 times the traced
\* channel clamped to [0, 1], a value in 0..255.
C13_PixelLayout ==
    \A j \in 0..(height - 1) : \A i \in 0..(width - 1) :
        LET idx == j * width + i
            c == trace(variant, scene, pixelRay(camera, width, height, j, i), 0)
        IN  (idx \in DOMAIN writes /\ writes[idx] # << >>) =>
                /\ pixels[idx].alpha = 255
                /\ pixels[idx].rgb \in 0..16777215
                /\ IsByteOfChannel(ByteAt(pixels[idx].rgb, 2), c.x)
                /\ IsByteOfChannel(ByteAt(pixels[idx].rgb, 1), c.y)
                /\ IsByteOfChannel(ByteAt(pixels[idx].rgb, 0), c.z)

\* a presented frame with a pixel whose traced red channel exceeds 1 and is
\* stored as 255 next to a smaller blue byte
C13_Witness ==
    /\ phase = "presented"
    /\ \E j \in 0..(height - 1) : \E i \in 0..(width - 1) :
          LET c == trace(variant, scene, pixelRay(camera, width, height, j, i), 0)
          IN  /\ c.x > ONE
              /\ ByteAt(texture[j * width + i].rgb, 2) = 255
              /\ ByteAt(texture[j * width + i].rgb, 0) < 255

\* the threads inside the progress block
InProgressBlock == {t \in DOMAIN workers : workers[t].pc = "critical"}

\* C14: at most one thread is inside the progress block at any time; the
\* block stores nothing (a thread at or in the block has not yet stored a
\* pixel of its row), and the buffer at the end of the loop is the one the
\* loop produces without any progress block, in whatever order the threads
\* passed through it.
C14_ProgressSerialized ==
    /\ Cardinality(InProgressBlock) <= 1
    /\ \A t \in DOMAIN workers :
          workers[t].pc \in {"lock", "critical"} =>
              \A i \in 0..(width - 1) :
                  /\ writes[PixelIndex(width, workers[t].j, i)] = << >>
                  /\ pixels[PixelIndex(width, workers[t].j, i)] = Unwritten
    /\ (phase = "parallel" /\ \A t \in Threads : workers[t].pc = "barrier") =>
          pixels = renderSequential(variant, scene, camera, width, height)

\* one thread is inside the progress block while another waits to enter it
C14_Witness ==
    /\ phase = "parallel"
    /\ \E t1, t2 \in Threads :
          /\ workers[t1].pc = "critical"
          /\ workers[t2].pc = "lock"
          /\ workers[t1].j > workers[t2].j

\* C15: no step of a render changes the Scene (spheres, lights, background)
\* or the Camera, under every interleaving: their values after the render are
\* their values before it.
C15_SceneAndCameraUnchanged == [][scene' = scene /\ camera' = camera]_vars

\* a render by two threads has ended with pixels that took their colour from
\* the spheres, the lights and the background of the scene
C15_Witness ==
    /\ phase = "presented"
    /\ nthreads = 2
    /\ scene = SceneStage
    /\ camera \in Cameras
    /\ \E a \in DOMAIN texture : texture[a] = pack(clamp(scene.background))
    /\ \E a \in DOMAIN texture : texture[a] # pack(clamp(scene.background))

\* C16: the buffer is copied to the texture and presented only when every
\* thread has passed the barrier of the loop, so every row has finished all
\* of its stores: no thread is in a row, every cell of the texture is a stored
\* pixel, and nothing is presented before that.
C16_PresentedAfterAllRows ==
    /\ phase # "presented" => texture = << >>
    /\ phase = "presented" =>
          /\ \A t \in Threads : workers[t].pc = "barrier"
          /\ nextRow >= height
          /\ \A idx \in DOMAIN pixels :
                /\ Len(writes[idx]) = 1
                /\ texture[idx] = pixels[idx]
                /\ texture[idx] # Unwritten

\* a frame whose cells were stored by two different threads has been
\* presented
C16_Witness ==
    /\ phase = "presented"
    /\ nthreads = 2
    /\ DOMAIN texture = 0..(width * height - 1)
    /\ \E a, b \in DOMAIN writes : writes[a][1].thread # writes[b][1].thread
    /\ \A idx \in DOMAIN texture : texture[idx].alpha = 255

-----------------------------------------------------------------------------
(* Further properties of trace (under SpecTrace) *)

\* C17: an invocation of trace with depth > MAX_DEPTH returns the background
\* colour whatever its ray would hit, runs no intersection query and makes no
\* recursive call.
C17_BeyondBoundReturnsBackground ==
    /\ \A i \in 1..Len(tStack) :
          tStack[i].depth > MAX_DEPTH =>
              /\ tStack[i].pc \in {"call", "ret"}
              /\ ~tStack[i].queried
              /\ ~tStack[i].hit
              /\ tStack[i].pc = "ret" => tStack[i].color = scene.background
    /\ tArgs.depth > MAX_DEPTH =>
          /\ tCalls <= 1
          /\ Len(tStack) <= 1
          /\ tResult.done =>
                (tCalls = 1 /\ tSteps = 2 /\ tResult.color = scene.background)

\* a trace started beyond the bound on a ray that hits a sphere, and would be
\* given another colour at depth 0, has returned the background
C17_Witness ==
    /\ tArgs.depth > MAX_DEPTH
    /\ tResult.done
    /\ HitSet(variant, scene, tArgs.ray) # {}
    /\ tResult.color = scene.background
    /\ trace(variant, scene, tArgs.ray, 0) # scene.background

\* every sphere of the scene reflects
AllReflective(sc) ==
    \A i \in 1..Len(sc.spheres) : sc.spheres[i].material.reflectivity > 0

\* C18 as stated: the two copies differ in the cutoff at the reflection site
\* ("depth > 3" against "depth < 3"), so where a trace from depth 0 is still
\* hitting reflective spheres at the depth bound (the place where the two
\* cutoffs part) the copies follow a different number of bounces.
C18_CopiesBounceDifferently ==
    (tResult.done /\ tArgs.depth = 0 /\ UnitDirection(tArgs.ray)
        /\ AllReflective(scene) /\ tCalls = MAX_DEPTH + 1) =>
        bounces(OtherVariant(variant), scene, tArgs.ray, 0) # tCalls - 1

\* C18 amended: the two copies have the same cutoff at the reflection site
\* (both recurse only when depth < 3, behind the same entry guard depth > 3):
\* from the same primary ray of unit direction both follow the same number of
\* bounces, at most MAX_DEPTH.  On a zero-direction primary ray the number is
\* also at most MAX_DEPTH in both, and 0 in the baseline, whose intersection
\* test never hits on such a ray.
C18_CopiesBounceAlike ==
    (tResult.done /\ tArgs.depth = 0) =>
        /\ tCalls - 1 = bounces(variant, scene, tArgs.ray, 0)
        /\ tCalls - 1 <= MAX_DEPTH
        /\ bounces(OtherVariant(variant), scene, tArgs.ray, 0) <= MAX_DEPTH
        /\ UnitDirection(tArgs.ray) =>
              bounces(OtherVariant(variant), scene, tArgs.ray, 0) = tCalls - 1
        /\ (ZeroDirection(tArgs.ray) /\ variant = "baseline") => tCalls = 1
        /\ UnitDirection(tArgs.ray) \/ ZeroDirection(tArgs.ray)

\* the baseline has followed MAX_DEPTH bounces from a ray of unit direction,
\* as the optimized copy does from the same ray
C18_Witness ==
    /\ tResult.done
    /\ tArgs.depth = 0
    /\ variant = "baseline"
    /\ UnitDirection(tArgs.ray)
    /\ tCalls - 1 = MAX_DEPTH
    /\ bounces("optimized", scene, tArgs.ray, 0) = MAX_DEPTH

\* the frame's colour is still the one trace has at its reflection site
AtReflectionSite(f) ==
    /\ f.hit
    /\ \/ f.pc = "await"
       \/ f.pc = "ret" /\ ~reflects([reflectivity |-> f.refl], f.depth)

\* the lights no sphere occludes within the distance from hit_point to them
UnoccludedLights(sc, hit_point) ==
    {i \in 1..Len(sc.lights) :
        ~intersectShadow(sc,
             Ray(hit_point, normalize(sub(sc.lights[i].position, hit_point))),
             length(sub(sc.lights[i].position, hit_point)))}

\* the sum of the diffuse and specular terms of the lights in the set lit
RECURSIVE SumOfTerms(_, _, _, _, _, _)
SumOfTerms(sc, m, normal, view_dir, hit_point, lit) ==
    IF lit = {} THEN Vec3(0, 0, 0)
    ELSE LET i == CHOOSE k \in lit : TRUE
         IN  add(lightTerms(m, normal, view_dir, hit_point, sc.lights[i]),
                 SumOfTerms(sc, m, normal, view_dir, hit_point, lit \ {i}))

\* the ambient term and the terms of exactly the unoccluded lights
ShadedColor(sc, ray, h) ==
    LET sphere == sphereAt(sc, h.hit_idx)
        hit_point == at(ray, h.closest_t)
    IN  add(scale(sphere.material.color, sphere.material.ambient),
            SumOfTerms(sc, sphere.material, getNormal(sphere, hit_point),
                       normalize(sub(ray.origin, hit_point)), hit_point,
                       UnoccludedLights(sc, hit_point)))

\* C19: at every hit in trace the colour at the reflection site is the ambient
\* term plus the diffuse and specular terms of exactly the lights for which
\* the shadow query bounded by the distance from the hit point to the light
\* reports no occluder; a shadowed light contributes nothing.
C19_LightsAddExactlyWhenUnoccluded ==
    \A i \in 1..Len(tStack) :
        AtReflectionSite(tStack[i]) =>
            tStack[i].color =
                ShadedColor(scene, tStack[i].ray,
                            Scene_intersect(variant, scene, tStack[i].ray))

-----------------------------------------------------------------------------
(* Further properties of render (under Spec) *)

\* the pixel word of column i when its row is traced with the vertical
\* image coordinate t
PixelTracedAt(i, t) ==
    pack(clamp(trace(variant, scene,
                     getRay(camera, colCoordinate(width, i), t,
                            fdiv(width * ONE, height * ONE)), 0)))

\* C20: render inverts the row index: every stored pixel of row 0 has been
\* traced with t = 1 and every stored pixel of row height - 1 with t = 0, and
\* the coordinate of the rows strictly decreases as the row index increases.
C20_RowIndexInverted ==
    /\ \A i \in 0..(width - 1) :
          /\ writes[PixelIndex(width, 0, i)] # << >> =>
                pixels[PixelIndex(width, 0, i)] = PixelTracedAt(i, ONE)
          /\ writes[PixelIndex(width, height - 1, i)] # << >> =>
                pixels[PixelIndex(width, height - 1, i)] = PixelTracedAt(i, 0)
    /\ rowCoordinate(height, 0) = ONE
    /\ rowCoordinate(height, height - 1) = 0
    /\ \A j, k \in 0..(height - 1) :
          j < k => rowCoordinate(height, j) > rowCoordinate(height, k)

\* a presented frame in which a column shows, in its top row, the colour
\* traced with t = 1 and, in its bottom row, the different colour traced with
\* t = 0
C20_Witness ==
    /\ phase = "presented"
    /\ \E i \in 0..(width - 1) :
          /\ texture[PixelIndex(width, 0, i)] = PixelTracedAt(i, ONE)
          /\ texture[PixelIndex(width, height - 1, i)] = PixelTracedAt(i, 0)
          /\ PixelTracedAt(i, ONE) # PixelTracedAt(i, 0)

-----------------------------------------------------------------------------
(* Properties of the image coordinates (under SpecGrid) *)

\* x is a number between 0 and 1
InZeroOne(x) == x \notin {NaN, PosInf, NegInf} /\ 0 <= x /\ x <= ONE

\* C21: for every grid shape with width >= 1 and height >= 1 and every pixel
\* (i, j) of it, the image coordinates u and v that render passes to
\* Camera::getRay are well defined and lie in [0, 1].
C21_CoordinatesWellDefined ==
    gOut.op = "coordinates" => InZeroOne(gOut.u) /\ InZeroOne(gOut.v)

-----------------------------------------------------------------------------
(* Properties of main (under SpecMain) *)

\* e is a quit event or a key-down event of the ESC key
QuitOrEscape(e) ==
    e \in {[type |-> "SDL_QUIT", sym |-> "none"],
           [type |-> "SDL_KEYDOWN", sym |-> "SDLK_ESCAPE"]}

\* render is over: every cell is stored and the buffer has been presented
FramePresented ==
    /\ DOMAIN texture = 0..(width * height - 1)
    /\ texture = pixels
    /\ \A idx \in DOMAIN writes : writes[idx] # << >>

\* C22: no event is polled from the start of render to the presentation of
\* the frame: an event is polled only by handleEvents, which runs only once
\* the whole frame is rendered and presented; and waitForClose has returned
\* only when the event polled last is a quit or an ESC key-down, the only one
\* polled.
C22_NoCancellationMidFrame ==
    /\ phase \in {"idle", "parallel", "presented"} => polled = << >>
    /\ phase \in {"polling", "delay", "closed"} => FramePresented
    /\ phase = "closed" =>
          /\ polled # << >>
          /\ QuitOrEscape(polled[Len(polled)])
          /\ \A k \in 1..(Len(polled) - 1) : ~QuitOrEscape(polled[k])

\* waitForClose has returned on an ESC key-down, after polling a key press
\* that it ignores
C22_Witness ==
    /\ phase = "closed"
    /\ polled = <<[type |-> "SDL_KEYDOWN", sym |-> "SDLK_SPACE"],
                  [type |-> "SDL_KEYDOWN", sym |-> "SDLK_ESCAPE"]>>

-----------------------------------------------------------------------------
(* Properties of the closest-hit query inside trace (under SpecTrace) *)

\* what Scene::intersect gives on the ray of frame f
QueryOf(f) == Scene_intersect(variant, scene, f.ray)

\* C23: on the ray of every trace invocation Scene::intersect returns true
\* exactly when hit_idx is an index in [0, spheres.size()) of a sphere the ray
\* hits, and otherwise returns false with hit_idx = -1; an invocation takes
\* the hit branch, where it indexes spheres, only on a true return; and in a
\* scene with no spheres every trace returns the background colour.
C23_HitIndexInRange ==
    /\ \A k \in 1..Len(tStack) :
          LET q == QueryOf(tStack[k])
          IN  /\ q.hit_idx \in -1..(Len(scene.spheres) - 1)
              /\ q.hit <=> q.hit_idx \in 0..(Len(scene.spheres) - 1)
              /\ q.hit =>
                    SphereIntersectOf(variant, tStack[k].ray,
                                      scene.spheres[q.hit_idx + 1]).hit
              /\ ~q.hit => q.hit_idx = -1
              /\ tStack[k].hit => q.hit
    /\ (tResult.done /\ scene.spheres = << >>) =>
          tResult.color = scene.background

\* an invocation at its reflection site whose query returned the index of the
\* last of several spheres
C23_Witness ==
    \E k \in 1..Len(tStack) :
        /\ tStack[k].hit
        /\ tStack[k].pc = "await"
        /\ Len(scene.spheres) > 1
        /\ QueryOf(tStack[k]).hit_idx = Len(scene.spheres) - 1

-----------------------------------------------------------------------------
(* Properties of the accelerator test bench (under SpecAccel) *)

\* C24: intersect asserts start for exactly one clock cycle and then polls
\* done for at most 100 further cycles; it returns the device's hit result
\* whenever done is asserted within those cycles, and reports "Hardware
\* timeout!" (returning false, leaving t unchanged) only when done is still
\* low after the 100th cycle.
C24_TimeoutOnlyWhenDoneStaysLow ==
    accel.pc = "returned" =>
        /\ accel.startTicks = 1
        /\ accel.pollTicks <= 100
        /\ accel.out.done =>
              /\ accel.ret = accel.out.hit
              /\ accel.cerr = << >>
        /\ accel.cerr # << >> =>
              /\ ~accel.out.done
              /\ accel.pollTicks = 100
              /\ accel.ret = FALSE
              /\ accel.t \in PriorT

-----------------------------------------------------------------------------
(* Properties of the traces render starts (under SpecTrace, entered at depth 0) *)

\* the invocation of frame f returned at the guard "depth > 3"
GuardTaken(f) == f.pc = "ret" /\ ~f.queried

\* C25: in a trace entered at depth 0, as render enters it for every pixel,
\* trace is invoked only with depth in 0..3, the invocations form one chain of
\* at most 4 (each makes at most one recursive call), the guard "depth > 3" is
\* never taken, and a hit at depth 3 returns the local colour with no
\* reflection term, whatever the reflectivity of the material.
C25_RenderStaysWithinDepthBound ==
    tArgs.depth = 0 =>
        /\ Len(tStack) <= 4
        /\ tCalls <= 4
        /\ \A k \in 1..Len(tStack) :
              /\ tStack[k].depth = k - 1
              /\ tStack[k].depth \in 0..3
              /\ ~GuardTaken(tStack[k])
              /\ (tStack[k].hit /\ tStack[k].depth = 3) =>
                    /\ tStack[k].pc = "ret"
                    /\ tStack[k].color =
                          localColor(variant, scene, tStack[k].ray,
                                     QueryOf(tStack[k]))

\* the fourth invocation of a chain entered at depth 0 has hit a reflective
\* sphere at depth 3 and is about to return
C25_Witness ==
    /\ tArgs.depth = 0
    /\ Len(tStack) = 4
    /\ tStack[4].depth = 3
    /\ tStack[4].hit
    /\ tStack[4].refl > 0
    /\ tStack[4].pc = "ret"

=============================================================================
